---- MODULE Spec2Model ----
(***************************************************************************)
(* modular-spatial-index: a Hilbert-curve codec (hilbert.go) and the       *)
(* rectangle-to-key-range decomposition built on it (spatial_index_2d.go). *)
(*                                                                         *)
(* Go's int is the 64-bit two's complement integer of a 64-bit build (the  *)
(* only build on which the 64-bit codec can be constructed,                *)
(* spatial_index_2d.go:23).  TLC's integers stop at 2^31-1 while curve     *)
(* distances reach 2^62, so an int is the sequence of its 8 bytes, least   *)
(* significant first, and the arithmetic below is arithmetic modulo 2^64.  *)
(***************************************************************************)
EXTENDS Integers, Sequences, FiniteSets, TLC

----------------------------------------------------------------------------
(* Go int: 64-bit two's complement, a[1] the least significant byte.       *)

\* The bytes of the int whose value is the (small) integer n.
I64(n) ==
    LET s == IF n < 0 THEN 255 ELSE 0
    IN  << n % 256, (n \div 256) % 256, (n \div 65536) % 256,
           (n \div 16777216) % 256, s, s, s, s >>

Zero == I64(0)
One == I64(1)
Two == I64(2)
Three == I64(3)
Four == I64(4)

IsNeg(a) == a[8] >= 128

\* Whether the int is small enough to be an integer of the model.
Fits(a) ==
    \/ a[5] = 0 /\ a[6] = 0 /\ a[7] = 0 /\ a[8] = 0 /\ a[4] < 128
    \/ a[5] = 255 /\ a[6] = 255 /\ a[7] = 255 /\ a[8] = 255 /\ a[4] >= 128

\* The value of an int that Fits.
ToInt(a) ==
    a[1] + 256 * a[2] + 65536 * a[3]
         + 16777216 * (IF IsNeg(a) THEN a[4] - 256 ELSE a[4])

RECURSIVE AddC(_, _, _, _)
AddC(a, b, k, c) ==
    IF k > 8 THEN << >>
    ELSE LET s == a[k] + b[k] + c
         IN  << s % 256 >> \o AddC(a, b, k + 1, s \div 256)

\* a + b
Add(a, b) == AddC(a, b, 1, 0)

RECURSIVE SubB(_, _, _, _)
SubB(a, b, k, c) ==
    IF k > 8 THEN << >>
    ELSE LET d == a[k] - b[k] - c
         IN  << d % 256 >> \o SubB(a, b, k + 1, IF d < 0 THEN 1 ELSE 0)

\* a - b
Sub(a, b) == SubB(a, b, 1, 0)

\* -a
Neg(a) == Sub(Zero, a)

RECURSIVE ULtFrom(_, _, _)
ULtFrom(a, b, k) ==
    IF k = 0 THEN FALSE
    ELSE IF a[k] # b[k] THEN a[k] < b[k]
    ELSE ULtFrom(a, b, k - 1)

\* a < b of the two bit patterns read as unsigned numbers
ULt(a, b) == ULtFrom(a, b, 8)

\* a < b, a <= b, a > b, a >= b (signed)
Lt(a, b) == IF IsNeg(a) # IsNeg(b) THEN IsNeg(a) ELSE ULt(a, b)
Le(a, b) == ~Lt(b, a)
Gt(a, b) == Lt(b, a)
Ge(a, b) == ~Lt(a, b)

\* The bytes of (b * m) << 8(j-1) for a byte m: one row of the long
\* multiplication, from byte k on with carry c.
RECURSIVE MulRow(_, _, _, _, _)
MulRow(b, m, j, k, c) ==
    IF k > 8 THEN << >>
    ELSE IF k < j THEN << 0 >> \o MulRow(b, m, j, k + 1, 0)
    ELSE LET s == b[k - j + 1] * m + c
         IN  << s % 256 >> \o MulRow(b, m, j, k + 1, s \div 256)

RECURSIVE MulFrom(_, _, _)
MulFrom(a, b, j) ==
    IF j > 8 THEN Zero
    ELSE IF a[j] = 0 THEN MulFrom(a, b, j + 1)
    ELSE Add(MulRow(b, a[j], j, 1, 0), MulFrom(a, b, j + 1))

\* a * b
Mul(a, b) == MulFrom(a, b, 1)

RECURSIVE ByteAnd(_, _)
ByteAnd(p, q) ==
    IF p = 0 \/ q = 0 THEN 0
    ELSE (p % 2) * (q % 2) + 2 * ByteAnd(p \div 2, q \div 2)

RECURSIVE ByteXor(_, _)
ByteXor(p, q) ==
    IF p = 0 THEN q
    ELSE IF q = 0 THEN p
    ELSE ((p + q) % 2) + 2 * ByteXor(p \div 2, q \div 2)

\* a & b, a ^ b
And(a, b) == [k \in 1..8 |-> ByteAnd(a[k], b[k])]
Xor(a, b) == [k \in 1..8 |-> ByteXor(a[k], b[k])]

\* 1 << n as an int, 0 <= n < 64
Pow2(n) == [k \in 1..8 |-> IF k = (n \div 8) + 1 THEN 2 ^ (n % 8) ELSE 0]

\* a << n (Go: a shift count of 64 or more leaves 0)
Shl(a, n) == IF n >= 64 THEN Zero ELSE Mul(a, Pow2(n))

\* a >> n, arithmetic, 0 <= n < 64
Shr(a, n) ==
    LET q == n \div 8
        r == n % 8
        s == IF IsNeg(a) THEN 255 ELSE 0
        at(k) == IF k > 8 THEN s ELSE a[k]
    IN  [k \in 1..8 |->
            (at(k + q) \div (2 ^ r)) + (at(k + q + 1) % (2 ^ r)) * (2 ^ (8 - r))]

\* |a| as a bit pattern (the unsigned magnitude)
Abs(a) == IF IsNeg(a) THEN Neg(a) ELSE a

\* Unsigned division by a divisor below 2^23, byte by byte from the top:
\* <<quotient, remainder>>, the remainder an integer of the model.
RECURSIVE UDivSmall(_, _, _, _)
UDivSmall(a, d, k, r) ==
    IF k = 0 THEN << << >>, r >>
    ELSE LET cur == r * 256 + a[k]
             rest == UDivSmall(a, d, k - 1, cur % d)
         IN  << rest[1] \o << cur \div d >>, rest[2] >>

\* Unsigned division, bit by bit from the top: <<quotient, remainder>>.
RECURSIVE UDivBits(_, _, _, _, _)
UDivBits(a, d, bit, q, r) ==
    IF bit < 0 THEN << q, r >>
    ELSE LET b == (a[(bit \div 8) + 1] \div (2 ^ (bit % 8))) % 2
             r2 == Add(Add(r, r), I64(b))
         IN  IF ULt(r2, d)
             THEN UDivBits(a, d, bit - 1, q, r2)
             ELSE UDivBits(a, d, bit - 1, Add(q, Pow2(bit)), Sub(r2, d))

UDivMod(a, d) ==
    IF d[4] = 0 /\ d[5] = 0 /\ d[6] = 0 /\ d[7] = 0 /\ d[8] = 0 /\ d[3] < 128
    THEN LET res == UDivSmall(a, ToInt(d), 8, 0) IN << res[1], I64(res[2]) >>
    ELSE UDivBits(a, d, 63, Zero, Zero)

\* a / b and a % b, b # 0: Go truncates the quotient toward zero and the
\* remainder takes the sign of the dividend.
Quo(a, b) ==
    LET q == UDivMod(Abs(a), Abs(b))[1]
    IN  IF IsNeg(a) # IsNeg(b) THEN Neg(q) ELSE q

Rem(a, b) ==
    LET r == UDivMod(Abs(a), Abs(b))[2]
    IN  IF IsNeg(a) THEN Neg(r) ELSE r

----------------------------------------------------------------------------
(* hilbert.go                                                              *)

\* No error (Go's nil), and the error kinds the package returns.
Nil == "nil"
ErrOutOfRange == "out of range"
ErrConfig == "invalid configuration"
ErrFormat == "requires at least 8 bytes"
ErrTooLarge == "rectangle is too large"

\* newHilbert: <<curve, err>>
newHilbert(edgeLength) ==
    IF Le(edgeLength, Zero) THEN [curve |-> Nil, err |-> ErrConfig]
    ELSE IF And(edgeLength, Sub(edgeLength, One)) # Zero
    THEN [curve |-> Nil, err |-> ErrConfig]
    ELSE [curve |-> [edgeLength |-> edgeLength], err |-> Nil]

\* rotate rotates and flips the quadrant appropriately: <<x, y>>
rotate(edgeLength, x, y, rx, ry) ==
    IF ~ry
    THEN IF rx
         THEN << Sub(Sub(edgeLength, One), y), Sub(Sub(edgeLength, One), x) >>
         ELSE << y, x >>
    ELSE << x, y >>

b2i(b) == IF b THEN One ELSE Zero

\* One pass of the loop of distanceAlongCurveToPoint, on the loop's
\* variables v = <<i, x, y, t>>, with its increment i = i * 2.
MapStep(v) ==
    LET i == v[1]
        x == v[2]
        y == v[3]
        t == v[4]
        rx == And(t, Two) = Two
        ry0 == And(t, One) = One
        ry == IF rx THEN ~ry0 ELSE ry0
        r == rotate(i, x, y, rx, ry)
    IN  << Mul(i, Two),
           IF rx THEN Add(r[1], i) ELSE r[1],
           IF ry THEN Add(r[2], i) ELSE r[2],
           Quo(t, Four) >>

\* for i := 1; i < s.edgeLength; i = i * 2
RECURSIVE MapLoop(_, _)
MapLoop(s, v) ==
    IF ~Lt(v[1], s.edgeLength) THEN v ELSE MapLoop(s, MapStep(v))

\* distanceAlongCurveToPoint: [x, y, err]
distanceAlongCurveToPoint(s, t) ==
    IF Lt(t, Zero) \/ Ge(t, Mul(s.edgeLength, s.edgeLength))
    THEN [x |-> Zero, y |-> Zero, err |-> ErrOutOfRange]
    ELSE LET v == MapLoop(s, << One, Zero, Zero, t >>)
         IN  [x |-> v[2], y |-> v[3], err |-> Nil]

\* One pass of the loop of pointToDistanceAlongCurve, on the loop's
\* variables v = <<i, x, y, t>>, with its increment i = i / 2.
MapInverseStep(v) ==
    LET i == v[1]
        x == v[2]
        y == v[3]
        t == v[4]
        rx == Gt(And(x, i), Zero)
        ry == Gt(And(y, i), Zero)
        a == IF rx THEN Three ELSE Zero
        r == rotate(i, x, y, rx, ry)
    IN  << Quo(i, Two), r[1], r[2],
           Add(t, Mul(Mul(i, i), Xor(a, b2i(ry)))) >>

\* for i := s.edgeLength / 2; i > 0; i = i / 2
RECURSIVE MapInverseLoop(_)
MapInverseLoop(v) ==
    IF ~Gt(v[1], Zero) THEN v ELSE MapInverseLoop(MapInverseStep(v))

\* pointToDistanceAlongCurve: [t, err]
pointToDistanceAlongCurve(s, x, y) ==
    IF Lt(x, Zero) \/ Ge(x, s.edgeLength) \/ Lt(y, Zero) \/ Ge(y, s.edgeLength)
    THEN [t |-> Zero, err |-> ErrOutOfRange]
    ELSE [t |-> MapInverseLoop(<< Quo(s.edgeLength, Two), x, y, Zero >>)[4],
          err |-> Nil]

----------------------------------------------------------------------------
(* spatial_index_2d.go: the codec                                          *)

\* math/bits.UintSize of the build
UintSize == 64

\* intToEightBytes with binary.LittleEndian in place of binary.BigEndian.
\* KeyOrder fails on it.
intToEightBytesLittleEndian(index, v) ==
    IF index.integerBits = 32
    THEN << v[1], v[2], v[3], v[4], 0, 0, 0, 0 >>
    ELSE v

\* intToEightBytes with the 32-bit distance put in the last four bytes,
\* PutUint32(eightBytes[4:], uint32(v)).  KeyLayout32 fails on it.
intToEightBytesLowWord(index, v) ==
    IF index.integerBits = 32
    THEN << 0, 0, 0, 0, v[4], v[3], v[2], v[1] >>
    ELSE << v[8], v[7], v[6], v[5], v[4], v[3], v[2], v[1] >>

\* eightBytesToInt with the 32-bit distance read from the last four bytes,
\* Uint32(eightBytes[4:8]).  CodecRoundTrip fails on it.
eightBytesToIntLowWord(index, eightBytes) ==
    IF index.integerBits = 32
    THEN << eightBytes[8], eightBytes[7], eightBytes[6], eightBytes[5], 0, 0, 0, 0 >>
    ELSE << eightBytes[8], eightBytes[7], eightBytes[6], eightBytes[5],
            eightBytes[4], eightBytes[3], eightBytes[2], eightBytes[1] >>

\* The two byte codecs NewSpatialIndex2D installs; a key is 8 bytes, key[1]
\* the first (most significant in big-endian order).
intToEightBytes(index, v) ==
    IF index.integerBits = 32
    THEN << v[4], v[3], v[2], v[1], 0, 0, 0, 0 >>
    ELSE << v[8], v[7], v[6], v[5], v[4], v[3], v[2], v[1] >>

eightBytesToInt(index, eightBytes) ==
    IF index.integerBits = 32
    THEN << eightBytes[4], eightBytes[3], eightBytes[2], eightBytes[1], 0, 0, 0, 0 >>
    ELSE << eightBytes[8], eightBytes[7], eightBytes[6], eightBytes[5],
            eightBytes[4], eightBytes[3], eightBytes[2], eightBytes[1] >>

\* NewSpatialIndex2D: [index, err]
NewSpatialIndex2D(integerBits) ==
    IF integerBits > UintSize THEN [index |-> Nil, err |-> ErrConfig]
    ELSE IF integerBits # 32 /\ integerBits # 64 THEN [index |-> Nil, err |-> ErrConfig]
    ELSE LET edgeSizeBits == (integerBits \div 2) - 1
         IN  [index |-> [hilbert |-> [edgeLength |-> Shl(One, edgeSizeBits)],
                         integerBits |-> integerBits,
                         edgeSizeBits |-> edgeSizeBits],
              err |-> Nil]

\* GetValidInputRange: <<min, max>>
GetValidInputRange(index) ==
    LET halfHilbertEdgeLength == Shl(One, index.edgeSizeBits - 1)
    IN  << Add(Neg(halfHilbertEdgeLength), One), Sub(halfHilbertEdgeLength, One) >>

\* GetOutputRange: <<smallest key, largest key>>
GetOutputRange(index) ==
    << intToEightBytes(index, Zero),
       intToEightBytes(index, Mul(index.hilbert.edgeLength, index.hilbert.edgeLength)) >>

\* GetIndexedPoint: [key, err]
GetIndexedPoint(index, x, y) ==
    LET half == Shr(index.hilbert.edgeLength, 1)
        r == pointToDistanceAlongCurve(index.hilbert, Add(x, half), Add(y, half))
    IN  IF r.err # Nil THEN [key |-> Nil, err |-> r.err]
        ELSE [key |-> intToEightBytes(index, r.t), err |-> Nil]

\* GetPositionFromIndexedPoint: [x, y, err]
GetPositionFromIndexedPoint(index, indexedPoint) ==
    IF Len(indexedPoint) < 8 THEN [x |-> Zero, y |-> Zero, err |-> ErrFormat]
    ELSE LET r == distanceAlongCurveToPoint(index.hilbert,
                      eightBytesToInt(index, SubSeq(indexedPoint, 1, 8)))
             half == Shr(index.hilbert.edgeLength, 1)
         IN  IF r.err # Nil THEN [x |-> Zero, y |-> Zero, err |-> r.err]
             ELSE [x |-> Sub(r.x, half), y |-> Sub(r.y, half), err |-> Nil]

----------------------------------------------------------------------------
(* spatial_index_2d.go: RectangleToIndexedRanges, phase by phase           *)

\* The sequence << f[lo], ..., f[hi] >>, each element computed once.
RECURSIVE Tabulate(_, _, _)
Tabulate(f, lo, hi) ==
    IF lo > hi THEN << >>
    ELSE IF lo = hi THEN << f[lo] >>
    ELSE LET mid == (lo + hi) \div 2
         IN  Tabulate(f, lo, mid) \o Tabulate(f, mid + 1, hi)

\* The sampling budget of the halving loop, and the fewest bits of edge the
\* downsampled curve may keep.
SampleBudget == 128
MinEdgeBits == 3

\* for width*height > 128
LoopGuard(width, height) == Gt(Mul(width, height), I64(SampleBudget))

\* x = halfX + (x % halfX), or 0 when halfX is 0 (also used for y)
HalveCoordinate(x) ==
    LET halfX == Quo(x, Two)
    IN  IF halfX # Zero THEN Add(halfX, Rem(x, halfX)) ELSE Zero

\* The halving without its else branch: an extent whose half is 0 is kept.
\* LoopTerminates fails on it.
HalveExtentKept(extent, half) ==
    IF half # Zero THEN Add(half, Rem(extent, half)) ELSE extent

\* width = half + (width % half), or 1 when half is 0
HalveExtent(extent, half) ==
    IF half # Zero THEN Add(half, Rem(extent, half)) ELSE One

\* One pass of the halving loop on v = [x, y, width, height].  halfHeight is
\* width / 2, and width is halved by two identical statements in a row.
HalveOnce(v) ==
    LET halfWidth == Quo(v.width, Two)
        halfHeight == Quo(v.width, Two)
        width1 == HalveExtent(v.width, halfWidth)
    IN  [x |-> HalveCoordinate(v.x),
         y |-> HalveCoordinate(v.y),
         width |-> HalveExtent(width1, halfWidth),
         height |-> HalveExtent(v.height, halfHeight)]

\* reducedHilbertPlaneEdgeLength := 1 << (index.edgeSizeBits - reducedBits)
ReducedEdgeLength(index, reducedBits) == Shl(One, index.edgeSizeBits - reducedBits)

\* The edge correction without its condition reducedBits > 0.
\* SamplingBudget fails on it.
EdgeCorrectionAlways(v, reducedBits, edge) ==
    LET x1 == IF Gt(v.x, Zero) THEN Sub(v.x, One) ELSE v.x
        y1 == IF Gt(v.y, Zero) THEN Sub(v.y, One) ELSE v.y
        w1 == IF Lt(Add(x1, v.width), edge) THEN Add(v.width, One) ELSE v.width
        w2 == IF Lt(Add(x1, w1), edge) THEN Add(w1, One) ELSE w1
        h1 == IF Lt(Add(y1, v.height), edge) THEN Add(v.height, One) ELSE v.height
        h2 == IF Lt(Add(y1, h1), edge) THEN Add(h1, One) ELSE h1
    IN  [x |-> x1, y |-> y1, width |-> w2, height |-> h2]

\* if reducedBits > 0 { ... }: the rectangle grown by a cell on its sides.
EdgeCorrection(v, reducedBits, edge) ==
    IF reducedBits > 0
    THEN LET x1 == IF Gt(v.x, Zero) THEN Sub(v.x, One) ELSE v.x
             y1 == IF Gt(v.y, Zero) THEN Sub(v.y, One) ELSE v.y
             w1 == IF Lt(Add(x1, v.width), edge) THEN Add(v.width, One) ELSE v.width
             w2 == IF Lt(Add(x1, w1), edge) THEN Add(w1, One) ELSE w1
             h1 == IF Lt(Add(y1, v.height), edge) THEN Add(v.height, One) ELSE v.height
             h2 == IF Lt(Add(y1, h1), edge) THEN Add(h1, One) ELSE h1
         IN  [x |-> x1, y |-> y1, width |-> w2, height |-> h2]
    ELSE v

\* The most ints make([]int, n) is followed for; a larger request is taken
\* to end the program (out of memory).  No call followed here makes one.
MaxAlloc == 1024

\* The distance sampled for cell (i, j) of the rectangle v on the curve of
\* edge length edge: [t, err].
SampleCell(v, edge, i, j) ==
    pointToDistanceAlongCurve([edgeLength |-> edge],
        Add(Add(v.x, I64(i)), Shr(edge, 1)), Add(Add(v.y, I64(j)), Shr(edge, 1)))

\* The sampling loops when width*height overflowed to n although width and
\* height are positive: column i = 0 ends the call, at the first j whose
\* cell is off the curve (an error) or whose slot j*width is past the n
\* slots allocated (a panic), the error first when both happen at one j.
FirstColumn(v, edge, n) ==
    LET half == Shr(edge, 1)
        cx == Add(v.x, half)
        cy == Add(v.y, half)
        offAtZero == Lt(cx, Zero) \/ Ge(cx, edge) \/ Lt(cy, Zero) \/ Ge(cy, edge)
        jErr == IF offAtZero THEN Zero ELSE Sub(edge, cy)
        jPanic == IF Rem(n, v.width) = Zero THEN Quo(n, v.width)
                  ELSE Add(Quo(n, v.width), One)
    IN  IF Lt(jErr, v.height) /\ Le(jErr, jPanic) THEN "err" ELSE "panic"

\* make([]int, width*height) and the two sampling loops:
\* [kind |-> "ok", curvePoints], [kind |-> "err", err] or [kind |-> "panic"].
Sampling(v, edge) ==
    LET n == Mul(v.width, v.height)
    IN  IF Lt(n, Zero) THEN [kind |-> "panic", why |-> "makeslice: len out of range"]
        ELSE IF ~Fits(n) \/ ToInt(n) > MaxAlloc
        THEN [kind |-> "panic", why |-> "out of memory"]
        ELSE IF Le(v.width, Zero) \/ Le(v.height, Zero)
        THEN [kind |-> "ok", curvePoints |-> [k \in 1..ToInt(n) |-> Zero]]
        ELSE IF Quo(n, v.width) = v.height /\ Rem(n, v.width) = Zero
        THEN LET w == ToInt(v.width)
                 cell(k) == SampleCell(v, edge, (k - 1) % w, (k - 1) \div w)
                 d == Tabulate([k \in 1..ToInt(n) |-> cell(k)], 1, ToInt(n))
             IN  IF \E k \in 1..ToInt(n) : d[k].err # Nil
                 THEN [kind |-> "err", err |-> ErrOutOfRange]
                 ELSE [kind |-> "ok", curvePoints |-> [k \in 1..ToInt(n) |-> d[k].t]]
        ELSE IF FirstColumn(v, edge, n) = "err"
        THEN [kind |-> "err", err |-> ErrOutOfRange]
        ELSE [kind |-> "panic", why |-> "index out of range"]

\* sort.Ints left out: the ints as they were sampled.  WellFormed fails on
\* it.
SortIntsSkipped(s) == s

\* sort.Ints: the ints in ascending order.
SortInts(s) ==
    LET n == Len(s)
        rankOf(i) == Cardinality({j \in 1..n :
                        Lt(s[j], s[i]) \/ (s[j] = s[i] /\ j < i)}) + 1
        rank == Tabulate([k \in 1..n |-> rankOf(k)], 1, n)
        kth(k) == s[CHOOSE i \in 1..n : rank[i] = k]
    IN  Tabulate([k \in 1..n |-> kth(k)], 1, n)

\* The comparison with the cost parameter dividing where it multiplies,
\* float32(distance) > float32(width*height)/iopsCostParam.  FewerRanges
\* fails on it.
FarApartDivided(distance, cells, iopsCostParam) ==
    Gt(distance, Quo(Mul(cells, I64(iopsCostParam.den)), I64(iopsCostParam.num)))

\* float32(distance) > float32(width*height)*iopsCostParam, for a cost
\* parameter num/den with den a power of two and a product of size below
\* 2^24: the product is then exact in float32, and float32(distance), which
\* rounds monotonically and leaves integers up to 2^24 alone, lies on the
\* same side of it as distance does.  An integer exceeds num*cells/den
\* exactly when it exceeds the largest integer not above it.
FarApart(distance, cells, iopsCostParam) ==
    LET product == Mul(cells, I64(iopsCostParam.num))
        q == Quo(product, I64(iopsCostParam.den))
    IN  Gt(distance, IF IsNeg(Rem(product, I64(iopsCostParam.den)))
                     THEN Sub(q, One) ELSE q)

\* The merge loop without its two assignments to ranges[len(ranges)-1][1]:
\* every range ends where it starts.  CoverageAtFullResolution fails on it.
MergeRangesUnclosed(sorted, cells, iopsCostParam) ==
    LET n == Len(sorted)
        starts == {1} \cup {i \in 2..n :
                     FarApart(Sub(sorted[i], sorted[i - 1]), cells, iopsCostParam)}
        m == Cardinality(starts)
        startOf(k) == CHOOSE i \in starts : Cardinality({j \in starts : j < i}) = k - 1
        start == Tabulate([k \in 1..m |-> startOf(k)], 1, m)
        range(k) == << sorted[start[k]], sorted[start[k]] >>
    IN  Tabulate([k \in 1..m |-> range(k)], 1, m)

\* The merge loop over the sorted curvePoints (not empty): a range starts at
\* curvePoints[1] and at every i whose distance from i-1 is FarApart, and
\* ends at the point before the next start, the last one at the last point.
MergeRanges(sorted, cells, iopsCostParam) ==
    LET n == Len(sorted)
        starts == {1} \cup {i \in 2..n :
                     FarApart(Sub(sorted[i], sorted[i - 1]), cells, iopsCostParam)}
        m == Cardinality(starts)
        startOf(k) == CHOOSE i \in starts : Cardinality({j \in starts : j < i}) = k - 1
        start == Tabulate([k \in 1..m |-> startOf(k)], 1, m)
        range(k) == << sorted[start[k]],
                       sorted[IF k < m THEN start[k + 1] - 1 ELSE n] >>
    IN  Tabulate([k \in 1..m |-> range(k)], 1, m)

\* The ranges scaled back up and encoded: a sequence of [Start, End].
RescaleRanges(index, ranges, reducedBits) ==
    LET byteRange(k) ==
            [Start |-> intToEightBytes(index, Shl(ranges[k][1], reducedBits * 2)),
             End |-> intToEightBytes(index, Shl(ranges[k][2], reducedBits * 2))]
    IN  Tabulate([k \in 1..Len(ranges) |-> byteRange(k)], 1, Len(ranges))

----------------------------------------------------------------------------
(* The package in use.  A curve or a codec is constructed once and never   *)
(* changes; every later call is a function of it and of the call's         *)
(* arguments.  A run is a construction, a first call, and calls made on    *)
(* what the first call returned.                                           *)

VARIABLES
    curve,        \* << the hilbert newHilbert returned >>, << >> while nil
    index,        \* << the SpatialIndex2D NewSpatialIndex2D returned >>, or << >>
    pc,           \* "idle" between calls, else the place inside
                  \* RectangleToIndexedRanges; "panic" once the program aborted
    call,         \* the call in progress or last finished: its name, arguments
    ret,          \* what the last finished call returned
    prev,         \* [call, ret] of the call whose result this call was made on,
                  \* NoCall when it was made on no call's result
    x, y, width, height, reducedBits, curvePoints, ranges
                  \* the locals of RectangleToIndexedRanges

vars == << curve, index, pc, call, ret, prev,
           x, y, width, height, reducedBits, curvePoints, ranges >>

locals == << x, y, width, height, reducedBits, curvePoints, ranges >>

NoCall == [call |-> [op |-> Nil], ret |-> [err |-> Nil]]

Init ==
    /\ curve = << >>
    /\ index = << >>
    /\ pc = "idle"
    /\ call = NoCall.call
    /\ ret = NoCall.ret
    /\ prev = NoCall
    /\ x = Zero
    /\ y = Zero
    /\ width = Zero
    /\ height = Zero
    /\ reducedBits = 0
    /\ curvePoints = << >>
    /\ ranges = << >>

----------------------------------------------------------------------------
(* hilbert.go in use                                                       *)

\* Curves of edge length 1 .. 2^MaxCurveBits are walked cell by cell.
MaxCurveBits == 3

\* The edge lengths newHilbert is given: the small powers of two, the first
\* power of two whose square is no int any more, and three that are refused.
EdgeLengths ==
    {Pow2(k) : k \in 0..MaxCurveBits} \cup {Pow2(UintSize \div 2)}
        \cup {Zero, I64(-4), I64(6)}

\* The distances and coordinates a curve is asked about: all of them and one
\* past either end on a small curve, a few on a large one.
CurveDistances(s) ==
    IF Fits(s.edgeLength) /\ ToInt(s.edgeLength) <= 2 ^ MaxCurveBits
    THEN {I64(t) : t \in -1..(ToInt(s.edgeLength) * ToInt(s.edgeLength))}
    ELSE {I64(-1), Zero, One, I64(6), Sub(s.edgeLength, One), s.edgeLength}

CurveCoordinates(s) ==
    IF Fits(s.edgeLength) /\ ToInt(s.edgeLength) <= 2 ^ MaxCurveBits
    THEN {I64(c) : c \in -1..ToInt(s.edgeLength)}
    ELSE {I64(-1), Zero, One, Sub(s.edgeLength, One), s.edgeLength}

NewHilbert(edgeLength) ==
    /\ pc = "idle" /\ curve = << >> /\ index = << >>
    /\ \E r \in {newHilbert(edgeLength)} :
          /\ curve' = IF r.err = Nil THEN << r.curve >> ELSE << >>
          /\ ret' = [err |-> r.err]
    /\ call' = [op |-> "newHilbert", edgeLength |-> edgeLength]
    /\ prev' = NoCall
    /\ UNCHANGED << index, pc, locals >>

\* distanceAlongCurveToPoint, on a distance of the caller's or on the
\* distance pointToDistanceAlongCurve has just returned.
DistanceAlongCurveToPoint(t) ==
    /\ pc = "idle" /\ curve # << >>
    /\ \/ call.op = "newHilbert" /\ t \in CurveDistances(curve[1]) /\ prev' = NoCall
       \/ /\ call.op = "pointToDistanceAlongCurve" /\ prev.call.op = Nil
          /\ ret.err = Nil /\ t = ret.t
          /\ prev' = [call |-> call, ret |-> ret]
    /\ call' = [op |-> "distanceAlongCurveToPoint", t |-> t]
    /\ ret' = distanceAlongCurveToPoint(curve[1], t)
    /\ UNCHANGED << curve, index, pc, locals >>

\* pointToDistanceAlongCurve, on a cell of the caller's or on the cell
\* distanceAlongCurveToPoint has just returned.
PointToDistanceAlongCurve(px, py) ==
    /\ pc = "idle" /\ curve # << >>
    /\ \/ /\ call.op = "newHilbert"
          /\ px \in CurveCoordinates(curve[1]) /\ py \in CurveCoordinates(curve[1])
          /\ prev' = NoCall
       \/ /\ call.op = "distanceAlongCurveToPoint" /\ prev.call.op = Nil
          /\ ret.err = Nil /\ px = ret.x /\ py = ret.y
          /\ prev' = [call |-> call, ret |-> ret]
    /\ call' = [op |-> "pointToDistanceAlongCurve", x |-> px, y |-> py]
    /\ ret' = pointToDistanceAlongCurve(curve[1], px, py)
    /\ UNCHANGED << curve, index, pc, locals >>

\* The arguments a call on the curve can have in the state.
DistanceArguments ==
    IF curve = << >> THEN {}
    ELSE IF call.op = "newHilbert" THEN CurveDistances(curve[1])
    ELSE IF call.op = "pointToDistanceAlongCurve" /\ ret.err = Nil THEN {ret.t}
    ELSE {}

CellArguments ==
    IF curve = << >> THEN {}
    ELSE IF call.op = "newHilbert"
    THEN CurveCoordinates(curve[1]) \X CurveCoordinates(curve[1])
    ELSE IF call.op = "distanceAlongCurveToPoint" /\ ret.err = Nil
    THEN {<< ret.x, ret.y >>}
    ELSE {}

NextCurve ==
    \/ \E edgeLength \in EdgeLengths : NewHilbert(edgeLength)
    \/ \E t \in DistanceArguments : DistanceAlongCurveToPoint(t)
    \/ \E c \in CellArguments : PointToDistanceAlongCurve(c[1], c[2])

SpecCurve == Init /\ [][NextCurve]_vars

----------------------------------------------------------------------------
(* spatial_index_2d.go in use                                              *)

\* integerBits as callers pass it: the two supported sizes, one too small
\* and one larger than the build's int.
IntegerBits == {16, 32, 64, 128}

\* Coordinates at and next to the ends of the valid input range and at and
\* next to the centre.
Coordinates(ix) ==
    LET r == GetValidInputRange(ix)
    IN  {Sub(r[1], One), r[1], Add(r[1], One), I64(-1), Zero, One,
         Sub(r[2], One), r[2], Add(r[2], One)}

\* Curve distances at and next to every byte boundary of a key and at and
\* next to the two ends of the curve.
Distances(ix) ==
    LET n == Mul(ix.hilbert.edgeLength, ix.hilbert.edgeLength)
    IN  {Pow2(k) : k \in {0, 8, 16, 24, 32, 40, 48, 56}}
            \cup {Sub(Pow2(k), One) : k \in {0, 8, 16, 24, 32, 40, 48, 56}}
            \cup {I64(-1), Sub(n, One), n, Add(n, One)}

Rectangle(a, b, c, d) == [x |-> a, y |-> b, width |-> c, height |-> d]

\* Rectangles as callers pass them.  Sampled at full resolution: at, across
\* and away from the centre, a full budget of 128 cells, and at either end
\* of the valid input range.  Downsampled: thin, square, across the centre.
\* Too large to downsample; with an area that is no int; with no area.
Rectangles(ix) ==
    LET r == GetValidInputRange(ix)
        edge == ix.hilbert.edgeLength
    IN  {Rectangle(I64(q[1]), I64(q[2]), I64(q[3]), I64(q[4])) : q \in
            {<< 0, 0, 4, 4 >>, << -2, -2, 4, 4 >>, << 0, 0, 1, 1 >>,
             << -3, -26, 5, 12 >>, << 3, -7, 16, 8 >>,
             << 0, 0, 1, 129 >>, << 0, 0, 12, 12 >>, << 5, 5, 20, 20 >>,
             << -20, -20, 40, 40 >>,
             << 0, 0, 0, 0 >>, << 0, 0, 0, 5 >>, << 0, 0, -1, 1 >>,
             << 0, 0, -1, -1 >>, << 0, 0, -2, -2 >>, << 0, 0, -20, -20 >>}}
        \cup {Rectangle(Sub(r[2], One), Sub(r[2], One), Two, Two),
              Rectangle(r[2], r[2], Two, Two),
              Rectangle(Sub(r[1], One), r[1], Two, Two),
              Rectangle(Zero, Zero, Mul(edge, Four), One),
              Rectangle(Zero, Zero, Pow2(UintSize \div 2), Pow2(UintSize \div 2))}

\* iopsCostParam as callers pass it: 0.5, 1.0 and 2, and -1.
CostParams ==
    {[num |-> 1, den |-> 2], [num |-> 1, den |-> 1], [num |-> 2, den |-> 1],
     [num |-> -1, den |-> 1]}

\* The halving loop is followed for at most this many passes.
MaxHalvings == 64

\* Every cell of a rectangle of at most this many cells is looked up after
\* the query; of a larger one its corners, edge midpoints and centre.
MaxLookupCells == 128

\* The points of a query's rectangle that are looked up after the query.
LookupPoints(c) ==
    IF Le(c.width, Zero) \/ Le(c.height, Zero) THEN {}
    ELSE IF Fits(c.width) /\ Fits(c.height)
            /\ ToInt(c.width) <= MaxLookupCells /\ ToInt(c.height) <= MaxLookupCells
            /\ ToInt(c.width) * ToInt(c.height) <= MaxLookupCells
    THEN {<< Add(c.x, I64(i)), Add(c.y, I64(j)) >> :
             i \in 0..(ToInt(c.width) - 1), j \in 0..(ToInt(c.height) - 1)}
    ELSE {<< Add(c.x, i), Add(c.y, j) >> :
             i \in {Zero, Quo(Sub(c.width, One), Two), Sub(c.width, One)},
             j \in {Zero, Quo(Sub(c.height, One), Two), Sub(c.height, One)}}

\* The first call on a codec just constructed.
Fresh == call.op = "NewSpatialIndex2D" /\ ret.err = Nil

\* A call made on the result of the call before it, itself a first call.
FollowUp(op) == call.op = op /\ ret.err = Nil /\ prev.call.op = Nil

NewIndex(integerBits) ==
    /\ pc = "idle" /\ curve = << >> /\ index = << >>
    /\ \E r \in {NewSpatialIndex2D(integerBits)} :
          /\ index' = IF r.err = Nil THEN << r.index >> ELSE << >>
          /\ ret' = [err |-> r.err]
    /\ call' = [op |-> "NewSpatialIndex2D", integerBits |-> integerBits]
    /\ prev' = NoCall
    /\ UNCHANGED << curve, pc, locals >>

ValidInputRange ==
    /\ pc = "idle" /\ index # << >> /\ Fresh
    /\ call' = [op |-> "GetValidInputRange"]
    /\ \E r \in {GetValidInputRange(index[1])} :
          ret' = [min |-> r[1], max |-> r[2], err |-> Nil]
    /\ prev' = NoCall
    /\ UNCHANGED << curve, index, pc, locals >>

OutputRange ==
    /\ pc = "idle" /\ index # << >> /\ Fresh
    /\ call' = [op |-> "GetOutputRange"]
    /\ \E r \in {GetOutputRange(index[1])} :
          ret' = [Start |-> r[1], End |-> r[2], err |-> Nil]
    /\ prev' = NoCall
    /\ UNCHANGED << curve, index, pc, locals >>

\* The distances intToEightBytes can be called on in the state.
IntArguments == IF index = << >> \/ pc # "idle" THEN {} ELSE Distances(index[1])

\* The closure intToEightBytes of the codec, on a distance and then on a
\* second one.
IntToEightBytes(v) ==
    /\ pc = "idle" /\ index # << >>
    /\ \/ Fresh /\ prev' = NoCall
       \/ FollowUp("intToEightBytes") /\ prev' = [call |-> call, ret |-> ret]
    /\ call' = [op |-> "intToEightBytes", v |-> v]
    /\ ret' = [key |-> intToEightBytes(index[1], v), err |-> Nil]
    /\ UNCHANGED << curve, index, pc, locals >>

\* The points GetIndexedPoint can be called on in the state: a caller's, or
\* one of the rectangle whose ranges a query has just returned.
PointArguments ==
    IF index = << >> \/ pc # "idle" THEN {}
    ELSE IF Fresh THEN Coordinates(index[1]) \X Coordinates(index[1])
    ELSE IF FollowUp("RectangleToIndexedRanges") THEN LookupPoints(call)
    ELSE {}

IndexedPoint(px, py) ==
    /\ pc = "idle" /\ index # << >>
    /\ prev' = IF Fresh THEN NoCall ELSE [call |-> call, ret |-> ret]
    /\ call' = [op |-> "GetIndexedPoint", x |-> px, y |-> py]
    /\ ret' = GetIndexedPoint(index[1], px, py)
    /\ UNCHANGED << curve, index, pc, locals >>

\* The keys GetPositionFromIndexedPoint can be called on in the state: the
\* key GetIndexedPoint has just returned, whole, cut short by a byte and
\* followed by a byte more, and the two keys of GetOutputRange.
KeyArguments ==
    IF index = << >> \/ pc # "idle" THEN {}
    ELSE IF FollowUp("GetIndexedPoint")
    THEN {ret.key, SubSeq(ret.key, 1, 7), ret.key \o << 1 >>}
    ELSE IF FollowUp("GetOutputRange") THEN {ret.Start, ret.End}
    ELSE {}

PositionFromIndexedPoint(indexedPoint) ==
    /\ pc = "idle" /\ index # << >>
    /\ prev' = [call |-> call, ret |-> ret]
    /\ call' = [op |-> "GetPositionFromIndexedPoint", indexedPoint |-> indexedPoint]
    /\ ret' = GetPositionFromIndexedPoint(index[1], indexedPoint)
    /\ UNCHANGED << curve, index, pc, locals >>

----------------------------------------------------------------------------
(* RectangleToIndexedRanges in use, one phase a step                       *)

\* return: the locals are gone.
Return(r) ==
    /\ pc' = "idle"
    /\ ret' = r
    /\ x' = Zero /\ y' = Zero /\ width' = Zero /\ height' = Zero
    /\ reducedBits' = 0
    /\ curvePoints' = << >>
    /\ ranges' = << >>

\* A run-time panic: the program ends where it is, nothing is returned.
Panic ==
    /\ pc' = "panic"
    /\ UNCHANGED << ret, locals >>

\* The rectangles a first query can be made on in the state, and the
\* rectangle of a second query: that of the query that has just returned
\* its ranges, once more.
RectangleArguments ==
    IF index = << >> \/ pc # "idle" THEN {}
    ELSE IF Fresh THEN Rectangles(index[1])
    ELSE {}

RepeatArguments ==
    IF index = << >> \/ pc # "idle" THEN {}
    ELSE IF FollowUp("RectangleToIndexedRanges")
    THEN {Rectangle(call.x, call.y, call.width, call.height)}
    ELSE {}

\* The call, up to reducedBits := 0.  iopsCostParam is not read before the
\* merge loop and is drawn there.
Query(r) ==
    /\ pc = "idle" /\ index # << >>
    /\ prev' = IF Fresh THEN NoCall ELSE [call |-> call, ret |-> ret]
    /\ call' = [op |-> "RectangleToIndexedRanges",
                x |-> r.x, y |-> r.y, width |-> r.width, height |-> r.height]
    /\ x' = r.x /\ y' = r.y /\ width' = r.width /\ height' = r.height
    /\ reducedBits' = 0
    /\ pc' = "loop"
    /\ UNCHANGED << curve, index, ret, curvePoints, ranges >>

\* One pass of for width*height > 128 { ... reducedBits++ }
Halve ==
    /\ pc = "loop"
    /\ LoopGuard(width, height)
    /\ reducedBits < MaxHalvings
    /\ \E v \in {HalveOnce(Rectangle(x, y, width, height))} :
          x' = v.x /\ y' = v.y /\ width' = v.width /\ height' = v.height
    /\ reducedBits' = reducedBits + 1
    /\ UNCHANGED << curve, index, pc, call, ret, prev, curvePoints, ranges >>

\* The loop left: the size check and the edge correction.
ExitLoop ==
    /\ pc = "loop"
    /\ ~LoopGuard(width, height)
    /\ IF index[1].edgeSizeBits - reducedBits < MinEdgeBits
       THEN Return([ranges |-> << >>, err |-> ErrTooLarge])
       ELSE /\ \E v \in {EdgeCorrection(Rectangle(x, y, width, height), reducedBits,
                                        ReducedEdgeLength(index[1], reducedBits))} :
                  x' = v.x /\ y' = v.y /\ width' = v.width /\ height' = v.height
            /\ pc' = "sample"
            /\ UNCHANGED << ret, reducedBits, curvePoints, ranges >>
    /\ UNCHANGED << curve, index, call, prev >>

\* curvePoints := make([]int, width*height) and the sampling loops.
Sample ==
    /\ pc = "sample"
    /\ \E r \in {Sampling(Rectangle(x, y, width, height),
                          ReducedEdgeLength(index[1], reducedBits))} :
          IF r.kind = "ok"
          THEN /\ curvePoints' = r.curvePoints
               /\ pc' = "sort"
               /\ UNCHANGED << ret, x, y, width, height, reducedBits, ranges >>
          ELSE IF r.kind = "err"
          THEN Return([ranges |-> << >>, err |-> r.err])
          ELSE Panic
    /\ UNCHANGED << curve, index, call, prev >>

\* sort.Ints(curvePoints)
Sort ==
    /\ pc = "sort"
    /\ curvePoints' = SortInts(curvePoints)
    /\ pc' = "merge"
    /\ UNCHANGED << curve, index, call, ret, prev,
                    x, y, width, height, reducedBits, ranges >>

\* ranges := [][]int{{curvePoints[0], curvePoints[0]}} and the merge loop.
Merge(iopsCostParam) ==
    /\ pc = "merge"
    /\ IF Len(curvePoints) = 0
       THEN Panic /\ UNCHANGED call
       ELSE /\ ranges' = MergeRanges(curvePoints, Mul(width, height), iopsCostParam)
            /\ call' = [op |-> call.op, x |-> call.x, y |-> call.y,
                        width |-> call.width, height |-> call.height,
                        iopsCostParam |-> iopsCostParam]
            /\ pc' = "rescale"
            /\ UNCHANGED << ret, x, y, width, height, reducedBits, curvePoints >>
    /\ UNCHANGED << curve, index, prev >>

\* byteRanges and return byteRanges, nil
Rescale ==
    /\ pc = "rescale"
    /\ Return([ranges |-> RescaleRanges(index[1], ranges, reducedBits), err |-> Nil])
    /\ UNCHANGED << curve, index, call, prev >>

Next ==
    \/ \E integerBits \in IntegerBits : NewIndex(integerBits)
    \/ ValidInputRange
    \/ OutputRange
    \/ \E v \in IntArguments : IntToEightBytes(v)
    \/ \E c \in PointArguments : IndexedPoint(c[1], c[2])
    \/ \E k \in KeyArguments : PositionFromIndexedPoint(k)
    \/ \E r \in RectangleArguments : Query(r)
    \/ Halve
    \/ ExitLoop
    \/ Sample
    \/ Sort
    \/ \E iopsCostParam \in CostParams : Merge(iopsCostParam)
    \/ Rescale

Spec == Init /\ [][Next]_vars

\* The same with every query that returned ranges made a second time.
NextAgain ==
    \/ Next
    \/ \E r \in RepeatArguments : Query(r)

SpecAgain == Init /\ [][NextAgain]_vars

----------------------------------------------------------------------------
(* What the properties below speak of                                      *)

\* Byte order on keys of 8 bytes: a before b, a not after b.
BytesLess(a, b) ==
    \E i \in 1..8 : a[i] < b[i] /\ \A j \in 1..(i - 1) : a[j] = b[j]

BytesLe(a, b) == a = b \/ BytesLess(a, b)

\* The key lies in one of the byte ranges.
Covered(key, byteRanges) ==
    \E k \in 1..Len(byteRanges) :
        BytesLe(byteRanges[k].Start, key) /\ BytesLe(key, byteRanges[k].End)

\* lo <= c <= hi
Within(c, lo, hi) == Ge(c, lo) /\ Le(c, hi)

\* The coordinates GetIndexedPoint accepts: those the centring shift takes
\* onto the curve.
AcceptedRange(ix) ==
    << Neg(Shr(ix.hilbert.edgeLength, 1)), Sub(Shr(ix.hilbert.edgeLength, 1), One) >>

\* The rectangle of a query has a positive width and height, and all its
\* cells have coordinates in the range.
Positive(c) == Gt(c.width, Zero) /\ Gt(c.height, Zero)

RectangleWithin(c, range) ==
    /\ Positive(c)
    /\ Within(c.x, range[1], range[2])
    /\ Within(c.y, range[1], range[2])
    /\ Within(c.width, One, Add(Sub(range[2], c.x), One))
    /\ Within(c.height, One, Add(Sub(range[2], c.y), One))

\* A call of the operation has returned (and no call was made since).
Returned(op) == pc = "idle" /\ call.op = op

\* GetIndexedPoint has returned for a point of the rectangle of the query
\* made before it, which returned ranges.
LookedUp ==
    /\ Returned("GetIndexedPoint")
    /\ prev.call.op = "RectangleToIndexedRanges"
    /\ Within(call.x, prev.call.x, Sub(Add(prev.call.x, prev.call.width), One))
    /\ Within(call.y, prev.call.y, Sub(Add(prev.call.y, prev.call.height), One))

\* iopsCostParam p is at most q.
CostLe(p, q) == p.num * q.den <= q.num * p.den

----------------------------------------------------------------------------
(* Coverage                                                                *)

\* C1: for every rectangle of positive width and height inside the valid
\* input range and every iopsCostParam > 0, when RectangleToIndexedRanges
\* has returned ranges, the key of every point of the rectangle lies in one
\* of them, downsampled or not, across the centre or not.
Coverage ==
    ( /\ LookedUp
      /\ RectangleWithin(prev.call, GetValidInputRange(index[1]))
      /\ prev.call.iopsCostParam.num > 0 )
        => ret.err = Nil /\ Covered(ret.key, prev.ret.ranges)

\* A point of a downsampled rectangle whose key is in none of the ranges:
\* (0, 128) of the rectangle (0, 0, 1, 129) at iopsCostParam 1.0.
CoverageMissed ==
    /\ LookedUp
    /\ prev.call.x = Zero /\ prev.call.y = Zero
    /\ prev.call.width = One /\ prev.call.height = I64(129)
    /\ prev.call.iopsCostParam = [num |-> 1, den |-> 1]
    /\ call.x = Zero /\ call.y = I64(128)
    /\ ret.err = Nil
    /\ ~Covered(ret.key, prev.ret.ranges)

\* The rectangle is sampled at full resolution: its cells are all accepted
\* by the codec and they are at most 128.
FullResolution(c) ==
    /\ RectangleWithin(c, AcceptedRange(index[1]))
    /\ ~LoopGuard(c.width, c.height)

\* C2: for every rectangle of positive width and height with at most 128
\* cells, all on the curve, and every iopsCostParam > 0,
\* RectangleToIndexedRanges returns one or more ranges and no error, and the
\* key of every cell of the rectangle lies in one of the ranges.
CoverageAtFullResolution ==
    /\ (Returned("RectangleToIndexedRanges") /\ FullResolution(call))
          => ret.err = Nil /\ Len(ret.ranges) >= 1
    /\ (LookedUp /\ FullResolution(prev.call))
          => ret.err = Nil /\ Covered(ret.key, prev.ret.ranges)

\* The 64-bit codec, the rectangle (0, 0, 4, 4) at iopsCostParam 1.0, and
\* its cell (3, 3) looked up in the ranges returned.
CoveredAtFullResolution ==
    /\ LookedUp
    /\ index[1].integerBits = 64
    /\ prev.call.x = Zero /\ prev.call.y = Zero
    /\ prev.call.width = Four /\ prev.call.height = Four
    /\ prev.call.iopsCostParam = [num |-> 1, den |-> 1]
    /\ call.x = Three /\ call.y = Three
    /\ Len(prev.ret.ranges) >= 1
    /\ Covered(ret.key, prev.ret.ranges)

----------------------------------------------------------------------------
(* The codec                                                               *)

\* The coordinate is inside GetValidInputRange().
Valid(c) ==
    Within(c, GetValidInputRange(index[1])[1], GetValidInputRange(index[1])[2])

\* C3: on the 32-bit and on the 64-bit codec, GetIndexedPoint succeeds on
\* every (x, y) with both coordinates inside GetValidInputRange(), and
\* GetPositionFromIndexedPoint on the 8 bytes it returned returns (x, y)
\* and no error.
CodecRoundTrip ==
    /\ (Returned("GetIndexedPoint") /\ Valid(call.x) /\ Valid(call.y))
          => ret.err = Nil /\ Len(ret.key) = 8
    /\ ( /\ Returned("GetPositionFromIndexedPoint")
         /\ prev.call.op = "GetIndexedPoint"
         /\ call.indexedPoint = prev.ret.key
         /\ Valid(prev.call.x) /\ Valid(prev.call.y) )
          => ret.err = Nil /\ ret.x = prev.call.x /\ ret.y = prev.call.y

\* The 32-bit codec has taken (max, min) of its valid input range to a key
\* and the key back to (max, min).
CodecRoundTripDone ==
    /\ Returned("GetPositionFromIndexedPoint")
    /\ index[1].integerBits = 32
    /\ prev.call.op = "GetIndexedPoint"
    /\ call.indexedPoint = prev.ret.key
    /\ prev.call.x = GetValidInputRange(index[1])[2]
    /\ prev.call.y = GetValidInputRange(index[1])[1]
    /\ ret.err = Nil /\ ret.x = prev.call.x /\ ret.y = prev.call.y

\* The distance is one of [0, edgeLength^2].
OnCurve(v) ==
    Within(v, Zero, Mul(index[1].hilbert.edgeLength, index[1].hilbert.edgeLength))

\* C5: on the 32-bit and on the 64-bit codec, for all distances t1 < t2 of
\* [0, edgeLength^2], the key intToEightBytes makes of t1 is before the key
\* it makes of t2 in byte order.
KeyOrder ==
    ( /\ Returned("intToEightBytes")
      /\ prev.call.op = "intToEightBytes"
      /\ OnCurve(prev.call.v) /\ OnCurve(call.v)
      /\ Lt(prev.call.v, call.v) )
        => BytesLess(prev.ret.key, ret.key)

\* The 32-bit codec has encoded 255 and then 256, which differ in the byte
\* they use, and the first key is before the second.
KeyOrderDone ==
    /\ Returned("intToEightBytes")
    /\ index[1].integerBits = 32
    /\ prev.call.op = "intToEightBytes"
    /\ prev.call.v = I64(255) /\ call.v = I64(256)
    /\ BytesLess(prev.ret.key, ret.key)

\* The keys the last call returned, with the distance each encodes where
\* the state tells it: << key, distance >> or << key >>.
KeysReturned ==
    IF pc # "idle" \/ ret.err # Nil THEN {}
    ELSE IF call.op = "GetIndexedPoint"
    THEN {<< ret.key,
             pointToDistanceAlongCurve(index[1].hilbert,
                 Add(call.x, Shr(index[1].hilbert.edgeLength, 1)),
                 Add(call.y, Shr(index[1].hilbert.edgeLength, 1))).t >>}
    ELSE IF call.op = "GetOutputRange"
    THEN {<< ret.Start, Zero >>,
          << ret.End, Mul(index[1].hilbert.edgeLength, index[1].hilbert.edgeLength) >>}
    ELSE IF call.op = "RectangleToIndexedRanges"
    THEN {<< ret.ranges[k].Start >> : k \in 1..Len(ret.ranges)}
            \cup {<< ret.ranges[k].End >> : k \in 1..Len(ret.ranges)}
    ELSE {}

\* The four bytes of a distance below 2^32, most significant first.
BigEndian4(v) == << v[4], v[3], v[2], v[1] >>

\* C6 as the specification has it: every key of a 32-bit codec, from
\* GetIndexedPoint, GetOutputRange or RectangleToIndexedRanges, has its
\* first four bytes zero and the distance, big-endian, in its last four.
KeyLayout32HighZero ==
    \A k \in KeysReturned :
        index[1].integerBits = 32 =>
            /\ SubSeq(k[1], 1, 4) = << 0, 0, 0, 0 >>
            /\ Len(k) = 2 => SubSeq(k[1], 5, 8) = BigEndian4(k[2])

\* C6: every key of a 32-bit codec, from GetIndexedPoint, GetOutputRange or
\* RectangleToIndexedRanges, has its last four bytes zero and the distance,
\* big-endian, in its first four.
KeyLayout32 ==
    \A k \in KeysReturned :
        index[1].integerBits = 32 =>
            /\ Len(k[1]) = 8
            /\ SubSeq(k[1], 5, 8) = << 0, 0, 0, 0 >>
            /\ Len(k) = 2 => SubSeq(k[1], 1, 4) = BigEndian4(k[2])

\* The 32-bit codec has returned the key of (0, 0), bytes 20 00 00 00 and
\* four zero bytes.
KeyLayout32Done ==
    /\ Returned("GetIndexedPoint")
    /\ index[1].integerBits = 32
    /\ call.x = Zero /\ call.y = Zero
    /\ ret.err = Nil
    /\ ret.key = << 32, 0, 0, 0, 0, 0, 0, 0 >>

----------------------------------------------------------------------------
(* The curve                                                               *)

\* 0 <= t < edgeLength^2 and 0 <= c < edgeLength, of the numbers: the square
\* of an edge length of 2^32 or more is above every int.
ValidDistance(s, t) ==
    /\ Ge(t, Zero)
    /\ Ge(s.edgeLength, Pow2(UintSize \div 2)) \/ Lt(t, Mul(s.edgeLength, s.edgeLength))

ValidCoordinate(s, c) == Ge(c, Zero) /\ Lt(c, s.edgeLength)

\* C4: on the curve of every power-of-two edgeLength,
\* distanceAlongCurveToPoint succeeds on every t of [0, edgeLength^2) and
\* pointToDistanceAlongCurve takes its result back to t, and
\* pointToDistanceAlongCurve succeeds on every cell (x, y) with
\* 0 <= x, y < edgeLength and distanceAlongCurveToPoint takes its result
\* back to (x, y).
CurveBijection ==
    /\ ( /\ call.op = "distanceAlongCurveToPoint"
         /\ ValidDistance(curve[1], call.t) )
          => ret.err = Nil
    /\ ( /\ call.op = "pointToDistanceAlongCurve"
         /\ ValidCoordinate(curve[1], call.x) /\ ValidCoordinate(curve[1], call.y) )
          => ret.err = Nil
    /\ ( /\ call.op = "pointToDistanceAlongCurve"
         /\ prev.call.op = "distanceAlongCurveToPoint"
         /\ ValidDistance(curve[1], prev.call.t) )
          => ret.t = prev.call.t
    /\ ( /\ call.op = "distanceAlongCurveToPoint"
         /\ prev.call.op = "pointToDistanceAlongCurve"
         /\ ValidCoordinate(curve[1], prev.call.x)
         /\ ValidCoordinate(curve[1], prev.call.y) )
          => ret.x = prev.call.x /\ ret.y = prev.call.y

\* The curve of edge length 2^32, which newHilbert accepts, refuses the
\* distance 0: its check t >= edgeLength*edgeLength compares with 0.
CurveRefusesZero ==
    /\ call.op = "distanceAlongCurveToPoint"
    /\ curve[1].edgeLength = Pow2(UintSize \div 2)
    /\ call.t = Zero
    /\ ret.err = ErrOutOfRange

\* On the curves whose edgeLength^2 is an int the two operations do undo
\* each other, cell by cell on those of edge length up to 2^MaxCurveBits.
CurveBijectionWithinInt ==
    (curve # << >> /\ Lt(curve[1].edgeLength, Pow2(UintSize \div 2)))
        => CurveBijection

----------------------------------------------------------------------------
(* RectangleToIndexedRanges                                                *)

\* C7: for every rectangle, when RectangleToIndexedRanges has returned
\* ranges at iopsCostParam p1 and at p2, 0 < p1 <= p2, it has returned no
\* more ranges at p2 than at p1.
FewerRanges ==
    ( /\ Returned("RectangleToIndexedRanges")
      /\ prev.call.op = "RectangleToIndexedRanges"
      /\ ret.err = Nil )
        => /\ CostLe(prev.call.iopsCostParam, call.iopsCostParam)
                => Len(ret.ranges) <= Len(prev.ret.ranges)
           /\ CostLe(call.iopsCostParam, prev.call.iopsCostParam)
                => Len(prev.ret.ranges) <= Len(ret.ranges)

\* A rectangle queried at a smaller and then at a larger iopsCostParam has
\* returned fewer ranges the second time.
FewerRangesDone ==
    /\ Returned("RectangleToIndexedRanges")
    /\ prev.call.op = "RectangleToIndexedRanges"
    /\ ret.err = Nil
    /\ CostLe(prev.call.iopsCostParam, call.iopsCostParam)
    /\ Len(ret.ranges) < Len(prev.ret.ranges)

\* C8: for all x, y, width, height, zero and negative ones too, and every
\* iopsCostParam, a call of RectangleToIndexedRanges ends by returning an
\* error and no ranges or no error and one or more ranges, never in a panic
\* and never with no error and no ranges.
AllOrNothing ==
    /\ pc # "panic"
    /\ Returned("RectangleToIndexedRanges")
          => \/ ret.err # Nil /\ Len(ret.ranges) = 0
             \/ ret.err = Nil /\ Len(ret.ranges) >= 1

\* The query of (0, 0, 0, 0) has ended in a panic: curvePoints is empty
\* and curvePoints[0] is read.
PanicOnEmpty ==
    /\ pc = "panic"
    /\ call.op = "RectangleToIndexedRanges"
    /\ call.width = Zero /\ call.height = Zero
    /\ Len(curvePoints) = 0

\* The halving loop has been left: its guard is false.
LoopLeft == pc = "loop" /\ ~LoopGuard(width, height)

\* C9: for every rectangle of positive width and height, when the halving
\* loop is left the reduced rectangle scaled up by 2^reducedBits covers the
\* rectangle of the call on both axes.
NeverCropped ==
    (LoopLeft /\ Positive(call))
        => /\ Le(Shl(x, reducedBits), call.x)
           /\ Ge(Shl(Add(x, width), reducedBits), Add(call.x, call.width))
           /\ Le(Shl(y, reducedBits), call.y)
           /\ Ge(Shl(Add(y, height), reducedBits), Add(call.y, call.height))

\* The loop left for (5, 5, 20, 20) with x = 3 after one halving: scaled
\* up, the reduced rectangle starts at 6, right of 5.
CroppedAtLeft ==
    /\ LoopLeft
    /\ call.x = I64(5) /\ call.y = I64(5)
    /\ call.width = I64(20) /\ call.height = I64(20)
    /\ reducedBits = 1
    /\ x = Three
    /\ Gt(Shl(x, reducedBits), call.x)

\* C10 as the specification has it: in every call with positive width and
\* height the cells sampled, width*height when curvePoints is allocated,
\* are at most 128.
SamplingBudget128 ==
    /\ (pc = "sample" /\ Positive(call)) => ~LoopGuard(width, height)
    /\ (pc = "sort" /\ Positive(call)) => Len(curvePoints) <= SampleBudget

\* C10: in every call with positive width and height, width*height is at
\* most 128 when the halving loop is left; the edge correction then leaves
\* width and height as they are when nothing was halved and else adds at
\* most 2 to each; and the cells sampled are width*height of the result.
SamplingBudget ==
    /\ [][ (LoopLeft /\ Positive(call) /\ pc' = "sample")
              => /\ Le(Mul(width, height), I64(SampleBudget))
                 /\ Within(width', width, Add(width, Two))
                 /\ Within(height', height, Add(height, Two))
                 /\ reducedBits = 0 => width' = width /\ height' = height ]_vars
    /\ [] ( (pc = "sort" /\ Positive(call))
              => I64(Len(curvePoints)) = Mul(width, height) )

\* The query of (5, 5, 20, 20) has sampled 144 cells.
SampledOverBudget ==
    /\ pc = "sort"
    /\ call.x = I64(5) /\ call.y = I64(5)
    /\ call.width = I64(20) /\ call.height = I64(20)
    /\ Len(curvePoints) = 144

----------------------------------------------------------------------------
(* The ranges returned                                                     *)

\* The distance a key of the codec encodes.
KeyDistance(key) == eightBytesToInt(index[1], key)

\* One key is not after, or is before, another in byte order and by the
\* distances they encode.
KeyLe(a, b) == BytesLe(a, b) /\ Le(KeyDistance(a), KeyDistance(b))

KeyLess(a, b) == BytesLess(a, b) /\ Lt(KeyDistance(a), KeyDistance(b))

\* C11 as the specification has it: whenever RectangleToIndexedRanges
\* returns ranges and no error, every range has Start <= End, and the End
\* of every range is strictly less than the Start of the next, in numeric
\* and in byte order.
WellFormedStrict ==
    (Returned("RectangleToIndexedRanges") /\ ret.err = Nil)
        => /\ \A k \in 1..Len(ret.ranges) : KeyLe(ret.ranges[k].Start, ret.ranges[k].End)
           /\ \A k \in 1..(Len(ret.ranges) - 1) :
                 KeyLess(ret.ranges[k].End, ret.ranges[k + 1].Start)

\* C11: whenever RectangleToIndexedRanges returns ranges and no error,
\* every range has Start <= End and the End of every range is at most the
\* Start of the next, in numeric and in byte order; it is strictly less
\* when width and height are positive or iopsCostParam is not negative.
WellFormed ==
    (Returned("RectangleToIndexedRanges") /\ ret.err = Nil)
        => /\ \A k \in 1..Len(ret.ranges) : KeyLe(ret.ranges[k].Start, ret.ranges[k].End)
           /\ \A k \in 1..(Len(ret.ranges) - 1) :
                 KeyLe(ret.ranges[k].End, ret.ranges[k + 1].Start)
           /\ (Positive(call) \/ call.iopsCostParam.num >= 0)
                 => \A k \in 1..(Len(ret.ranges) - 1) :
                       KeyLess(ret.ranges[k].End, ret.ranges[k + 1].Start)

\* A rectangle of positive width and height has come back as three or more
\* ranges, one of them longer than a key.
WellFormedDone ==
    /\ Returned("RectangleToIndexedRanges") /\ ret.err = Nil
    /\ Positive(call)
    /\ Len(ret.ranges) >= 3
    /\ \E k \in 1..Len(ret.ranges) : KeyLess(ret.ranges[k].Start, ret.ranges[k].End)

\* (0, 0, -2, -2) at iopsCostParam -1 has come back as four times the
\* range from key 0 to key 0.
RangesRepeated ==
    /\ Returned("RectangleToIndexedRanges") /\ ret.err = Nil
    /\ call.width = I64(-2) /\ call.height = I64(-2)
    /\ call.iopsCostParam.num < 0
    /\ Len(ret.ranges) = 4
    /\ ret.ranges[1].End = ret.ranges[2].Start

----------------------------------------------------------------------------
(* The edge correction                                                     *)

\* x, y, width, height after n passes of the halving loop on v.
RECURSIVE LoopResult(_, _)
LoopResult(v, n) == IF n = 0 THEN v ELSE HalveOnce(LoopResult(v, n - 1))

\* The step from the halving loop to the sampling, after one pass or more
\* on a rectangle of positive width and height.
Corrects ==
    /\ pc = "loop" /\ pc' = "sample"
    /\ reducedBits > 0
    /\ Positive(Rectangle(x, y, width, height))

\* The lowest coordinate of the centred grid of the downsampled curve, and
\* the one past its highest.
GridLow == Neg(Shr(ReducedEdgeLength(index[1], reducedBits), 1))

GridEnd == Shr(ReducedEdgeLength(index[1], reducedBits), 1)

\* C12: whenever a downsampling step occurred, the edge correction grows
\* the reduced rectangle by at least one cell on each of its four sides
\* that is not at the boundary of the centred reduced grid; its low-x and
\* low-y sides move outward by one cell when they are not at the grid's low
\* boundary, also when the reduced x or y is zero or negative.
GrownOnEachSide ==
    [][Corrects =>
          /\ Gt(x, GridLow) => x' = Sub(x, One)
          /\ Gt(y, GridLow) => y' = Sub(y, One)
          /\ Lt(Add(x, width), GridEnd) => Gt(Add(x', width'), Add(x, width))
          /\ Lt(Add(y, height), GridEnd) => Gt(Add(y', height'), Add(y, height))]_vars

\* What the edge correction does: the high sides not at the boundary move
\* outward, the low sides move outward by one cell when x or y is
\* positive, and stay when x or y is zero or negative.
GrownWherePositive ==
    [][Corrects =>
          /\ x' = (IF Gt(x, Zero) THEN Sub(x, One) ELSE x)
          /\ y' = (IF Gt(y, Zero) THEN Sub(y, One) ELSE y)
          /\ Lt(Add(x, width), GridEnd) => Gt(Add(x', width'), Add(x, width))
          /\ Lt(Add(y, height), GridEnd) => Gt(Add(y', height'), Add(y, height))]_vars

\* A rectangle of positive width and height has been downsampled and
\* corrected, and its low-x side, zero or negative and inside the grid, is
\* where the halving loop left it.
LowSideKept ==
    /\ pc = "sample"
    /\ reducedBits > 0
    /\ Positive(call)
    /\ \E v \in {LoopResult(Rectangle(call.x, call.y, call.width, call.height),
                            reducedBits)} :
          /\ Positive(v)
          /\ Le(v.x, Zero) /\ Gt(v.x, GridLow)
          /\ x = v.x

----------------------------------------------------------------------------
(* The halving loop on widths and heights of every size and sign           *)

\* Widths and heights from one end of int to the other.
Extents ==
    {Pow2(63), Neg(Pow2(40)), I64(-129), I64(-1),
     One, I64(129), I64(1000), Add(Pow2(31), One), Sub(Pow2(63), One)}

\* The corners x = y the rectangles of the loop are put at.
Corners == {Zero, I64(-7), Sub(Pow2(63), One)}

\* Rectangles of these widths and heights, as a first query of the index
\* of 64 bits (the loop does not read the index).
LoopArguments ==
    IF index = << >> \/ pc # "idle" \/ ~Fresh THEN {}
    ELSE IF index[1].edgeSizeBits # 31 THEN {}
    ELSE {Rectangle(c, c, w, h) : c \in Corners, w \in Extents, h \in Extents}

NextLoop ==
    \/ Next
    \/ \E r \in LoopArguments : Query(r)

\* The loop has a step to take: its guard is false and it is left, or
\* its guard is true and a pass is followed (up to MaxHalvings passes).
LoopCanStep ==
    /\ pc = "loop"
    /\ LoopGuard(width, height) => reducedBits < MaxHalvings

\* A call in the loop takes its next step: Go runs the statements of
\* RectangleToIndexedRanges one after the other, and nothing else runs.
\* This is weak fairness of the step Halve \/ ExitLoop, with LoopCanStep
\* for the states where that step is enabled.
LoopFairness ==
    \/ []<>(~LoopCanStep)
    \/ []<><<Halve \/ ExitLoop>>_vars

SpecLoop == Init /\ [][NextLoop]_vars /\ LoopFairness

\* bits.Len of a positive int: the bits up to its highest 1.
RECURSIVE BitLength(_)
BitLength(v) == IF v = Zero THEN 0 ELSE 1 + BitLength(Shr(v, 1))

\* C13: for every width and height, positive or not, the loop
\* for width*height > 128 terminates; for width, height > 0 the number of
\* its passes, reducedBits, is at most the bit length of the larger of
\* width and height, whatever x and y are.
LoopTerminates ==
    /\ [](/\ pc = "loop"
          /\ call.op = "RectangleToIndexedRanges"
          /\ Positive(call)
          => reducedBits <= BitLength(IF Gt(call.width, call.height)
                                      THEN call.width ELSE call.height))
    /\ (pc = "loop" ~> pc # "loop")

\* The loop has been left after 28 passes or more on a positive width and
\* height.
LoopLeftLate == LoopLeft /\ Positive(call) /\ reducedBits >= 28

\* The loop has been left after 28 passes or more on a negative width or
\* height.
LoopLeftLateNegative == LoopLeft /\ ~Positive(call) /\ reducedBits >= 28

----------------------------------------------------------------------------
(* The curve at two resolutions                                            *)

\* The curve of the edge length of s halved r times.
Coarser(s, r) == [edgeLength |-> Shr(s.edgeLength, r)]

\* pointToDistanceAlongCurve has been asked about a cell of the curve.
CellAsked ==
    /\ call.op = "pointToDistanceAlongCurve"
    /\ ValidCoordinate(curve[1], call.x) /\ ValidCoordinate(curve[1], call.y)

\* The distance of the cell asked about, divided by 4^r, is the distance
\* on the curve r times coarser of the cell that holds it.
SameAtCoarser(r) ==
    \E d \in {pointToDistanceAlongCurve(Coarser(curve[1], r),
                                        Shr(call.x, r), Shr(call.y, r))} :
       /\ ret.err = Nil /\ d.err = Nil
       /\ Quo(ret.t, Pow2(2 * r)) = d.t

\* The four cells of the curve inside the cell asked about halved have the
\* distances 4d .. 4d+3, d the distance of that cell on the curve of half
\* the edge length.
FourInside ==
    \E d \in {pointToDistanceAlongCurve(Coarser(curve[1], 1),
                                        Shr(call.x, 1), Shr(call.y, 1))} :
       {pointToDistanceAlongCurve(curve[1],
            Add(Shl(Shr(call.x, 1), 1), I64(a)),
            Add(Shl(Shr(call.y, 1), 1), I64(b))).t : a \in 0..1, b \in 0..1}
          = {Add(Shl(d.t, 2), I64(k)) : k \in 0..3}

\* C14: for every power-of-two edge length n >= 1 and every cell (x, y)
\* with 0 <= x, y < 2n, the distance of (x, y) on the curve of edge length
\* 2n, divided by 4, is the distance of (x div 2, y div 2) on the curve of
\* edge length n; the four cells inside a cell of distance d on the coarser
\* curve have the distances 4d .. 4d+3, and so through every number of
\* halvings: a coarse distance shifted left by two bits a halving is the
\* smallest distance inside its cell.
ResolutionConsistency ==
    CellAsked =>
       /\ \A r \in 1..MaxCurveBits :
             Ge(curve[1].edgeLength, Pow2(r)) => SameAtCoarser(r)
       /\ Ge(curve[1].edgeLength, Two) => FourInside

\* The cell (2^32 - 1, 0) of the curve of edge length 2^32, which
\* newHilbert accepts, has come back with a distance that is not in
\* 4d .. 4d+3 for the distance d of (2^31 - 1, 0) on the curve of edge
\* length 2^31.
ResolutionLost ==
    /\ CellAsked
    /\ curve[1].edgeLength = Pow2(UintSize \div 2)
    /\ call.x = Sub(curve[1].edgeLength, One) /\ call.y = Zero
    /\ ret.err = Nil
    /\ ~SameAtCoarser(1)

\* On the curves whose edgeLength^2 is an int the distances at two
\* resolutions do agree, cell by cell on those of edge length up to
\* 2^MaxCurveBits.
ResolutionConsistencyWithinInt ==
    (curve # << >> /\ Lt(curve[1].edgeLength, Pow2(UintSize \div 2)))
        => ResolutionConsistency

====
